---------------------------- MODULE Spec2Model ----------------------------
(***************************************************************************)
(* State-machine model of the google-task-cli repository:                  *)
(*   - the 1Password credential loader        (src/src/onepassword.ts)     *)
(*   - authorize / getNewToken / startOAuthServer                          *)
(*                      (src/src/photo-view.ts 403-603, src/server.ts)     *)
(*   - the Google Tasks entry point  (src/src/onepassword.ts, server.ts)   *)
(*   - GooglePhotosViewer and GooglePhotosUploader (src/src/photo-view.ts) *)
(***************************************************************************)
EXTENDS Integers, Sequences, FiniteSets, TLC

VARIABLES
    entry,          \* the entry point that runs, or the function called directly
    run,            \* number of the current process run (the token file survives runs)
    pc,             \* position of the main async function
    opInstalled,    \* environment: the op CLI is installed
    opSignedIn,     \* environment: the user is signed in to op
    opFields,       \* environment: fields the 1Password item has
    opRaw,          \* environment: raw stdout of `op item get --field f`
    credentials,    \* value returned by getCredentialsFrom1Password
    server,         \* the redirect listener (express app.listen)
    promise,        \* the promise returned by startOAuthServer
    reqs,           \* GET / requests on the redirect port and their handlers
    tokenFile,      \* content of TOKEN_PATH
    fileAtStart,    \* content of TOKEN_PATH when the current flow's listener was started
    clientCreds,    \* oAuth2Client.credentials
    browserOpened,  \* openURL(authUrl) was called
    authResult,     \* what authorize() produced
    issued,         \* external requests issued in this run, per logical step
    failedCalls,    \* logical steps whose external request failed in this run
    taskLists,      \* value returned by getTaskLists
    reads,          \* the per-list getTasks promises
    doneOrder,      \* order in which the getTasks promises settled
    shown,          \* tasks printed under each task list
    outcome,        \* what the run reported at its end
    pages,          \* the media library held by the service, page by page
    call,           \* the media-library HTTP request in flight
    requestLog,     \* media-library requests sent so far, in order
    allItems,       \* listAllMediaItems: the items accumulated so far
    mediaValue,     \* value the last media-library operation resolved with
    mediaError,     \* error the last media-library operation failed with
    fileName,       \* getMimeType: the file name passed in
    mimeType,       \* getMimeType: the value returned
    uploadToken,    \* uploadFile: the token uploadBytes resolved with
    response,       \* uploadFile: the body batchCreateMediaItems resolved with
    answer          \* a directly called operation: what came back for its request

authVars == <<server, promise, reqs, tokenFile, fileAtStart, clientCreds, browserOpened,
              authResult>>
envVars  == <<opInstalled, opSignedIn, opFields, opRaw>>
taskVars == <<taskLists, reads, doneOrder, shown>>
mediaVars == <<pages, call, requestLog, allItems, mediaValue, mediaError, fileName, mimeType,
               uploadToken, response, answer>>
vars == <<entry, run, pc, envVars, credentials, authVars, issued, failedCalls,
          taskVars, outcome, mediaVars>>

-----------------------------------------------------------------------------
(* Bounds of the model *)

MaxReq == 2      \* GET / requests that reach the redirect port in one flow
MaxRuns == 2     \* process runs in a behaviour
MaxLists == 2    \* task lists returned by tasklists.list

-----------------------------------------------------------------------------
(* JavaScript values *)

Undef == "undefined"
Null == "null"

\* JavaScript truthiness of a query / token value
Truthy(v) == v \notin {Undef, Null, ""}

\* typeof v === "string" for the values a parsed query can hold
IsString(v) == v \notin {Undef, Null, "array"}

-----------------------------------------------------------------------------
(* The OAuth token record and the token file *)

TokenFields == {"access_token", "refresh_token"}

\* token records the provider may return (OAuthTokens: every field optional or null)
TokenRecords == [access_token : {Undef, "a1"}, refresh_token : {Undef, Null, "r1"}]

NoTokens == [access_token |-> Undef, refresh_token |-> Undef]

\* JSON.stringify of a token record: undefined members are left out, null is kept
JSONStringify(t) == {<<f, t[f]>> : f \in {g \in TokenFields : t[g] # Undef}}

\* JSON.parse of a serialized record, read back as a token record
JSONParse(s) ==
    [f \in TokenFields |->
        IF \E p \in s : p[1] = f THEN (CHOOSE p \in s : p[1] = f)[2] ELSE Undef]

NoFile == [kind |-> "none", body |-> {}]
CorruptFile == [kind |-> "corrupt", body |-> {}]
JSONFile(s) == [kind |-> "json", body |-> s]

\* a write that merges the new record into the old file content
SaveTokenMerging(old, tokens) ==
    IF old.kind = "json"
    THEN JSONFile({p \in old.body : tokens[p[1]] = Undef} \cup JSONStringify(tokens))
    ELSE JSONFile(JSONStringify(tokens))

\* saveToken: fs.writeFile(TOKEN_PATH, JSON.stringify(tokens)) replaces the file
SaveToken(old, tokens) == JSONFile(JSONStringify(tokens))


-----------------------------------------------------------------------------
(* External requests issued by the run, counted per logical step *)

Step(kind, key) == [kind |-> kind, key |-> key]

Count(log, step) == IF step \in DOMAIN log THEN log[step] ELSE 0

Issue(log, step) ==
    IF step \in DOMAIN log THEN [log EXCEPT ![step] = @ + 1] ELSE log @@ (step :> 1)

NoneIssued == [s \in {} |-> 0]

-----------------------------------------------------------------------------
(* The secrets CLI (execSync of `op ...`) and the credential loader *)

REDIRECT_PORT == 3000

CredFields == {"client_id", "client_secret"}

Whitespace == {" ", "nl"}

\* raw stdout of `op item get ... --field f`, as sequences of characters
RawOutputs == {<<"x">>, <<"x", "nl">>, <<" ", "x", " ", "y", "nl">>, <<"nl">>}

RECURSIVE TrimStart(_)
TrimStart(s) ==
    IF s # <<>> /\ Head(s) \in Whitespace THEN TrimStart(Tail(s)) ELSE s

RECURSIVE TrimEnd(_)
TrimEnd(s) ==
    IF s # <<>> /\ s[Len(s)] \in Whitespace THEN TrimEnd(SubSeq(s, 1, Len(s) - 1)) ELSE s

\* String.prototype.trim
Trim(s) == TrimEnd(TrimStart(s))

\* execSync("op --version") returns without throwing
OpVersionOk(installed) == installed

\* execSync("op item list --categories 'API Credential'") returns without throwing
OpItemListOk(installed, signedIn) == installed /\ signedIn

\* execSync(`op item get ... --field f`) returns without throwing
OpItemGetOk(installed, signedIn, fields, f) == installed /\ signedIn /\ f \in fields

\* a check that lets every environment pass
Check1PasswordCLIAlways(installed, signedIn) == TRUE

\* check1PasswordCLI: true iff both commands ran without throwing
Check1PasswordCLI(installed, signedIn) ==
    OpVersionOk(installed) /\ OpItemListOk(installed, signedIn)

\* the commands check1PasswordCLI ran (the second only after the first succeeded)
CheckCommands(installed) ==
    IF OpVersionOk(installed) THEN {Step("op_version", 0), Step("op_item_list", 0)}
    ELSE {Step("op_version", 0)}

NullCredentials ==
    [isNull |-> TRUE, client_id |-> <<>>, client_secret |-> <<>>, redirect_uris |-> <<>>]

\* a loader that returns what it has when the second lookup throws
GetCredentialsPartial(installed, signedIn, fields, raw, redirectUri) ==
    IF ~OpItemGetOk(installed, signedIn, fields, "client_id") THEN NullCredentials
    ELSE [isNull |-> FALSE,
          client_id |-> Trim(raw["client_id"]),
          client_secret |->
              IF OpItemGetOk(installed, signedIn, fields, "client_secret")
              THEN Trim(raw["client_secret"]) ELSE <<>>,
          redirect_uris |-> <<redirectUri>>]

\* getCredentialsFrom1Password: both lookups inside one try, null from the catch
GetCredentialsFrom1Password(installed, signedIn, fields, raw, redirectUri) ==
    IF ~OpItemGetOk(installed, signedIn, fields, "client_id") THEN NullCredentials
    ELSE IF ~OpItemGetOk(installed, signedIn, fields, "client_secret") THEN NullCredentials
    ELSE [isNull |-> FALSE,
          client_id |-> Trim(raw["client_id"]),
          client_secret |-> Trim(raw["client_secret"]),
          redirect_uris |-> <<redirectUri>>]

\* the lookups getCredentialsFrom1Password ran (the second only after the first succeeded)
LookupCommands(installed, signedIn, fields) ==
    IF OpItemGetOk(installed, signedIn, fields, "client_id")
    THEN {Step("op_item_get", 1), Step("op_item_get", 2)}
    ELSE {Step("op_item_get", 1)}

\* the lookups that threw
LookupFailures(installed, signedIn, fields) ==
    {s \in LookupCommands(installed, signedIn, fields) :
        ~OpItemGetOk(installed, signedIn, fields,
                     IF s.key = 1 THEN "client_id" ELSE "client_secret")}

RECURSIVE IssueAll(_, _)
IssueAll(log, steps) ==
    IF steps = {} THEN log
    ELSE LET s == CHOOSE x \in steps : TRUE IN IssueAll(Issue(log, s), steps \ {s})

-----------------------------------------------------------------------------
(* authorize, getNewToken and startOAuthServer *)

\* REDIRECT_URI = `http://localhost:${REDIRECT_PORT}`
REDIRECT_URI == <<"http://localhost:", REDIRECT_PORT>>

Requests == 1..MaxReq

\* req.query of a GET / request: error and code as express parses them
Queries == [error : {Undef, "", "access_denied"}, code : {Undef, "", "c1", "array"}]

IdleRequest == [st |-> "idle", tokens |-> NoTokens, status |-> 0]

\* a close that leaves the listener open
CloseServerNoop(srv) == srv

\* server?.close(): the listener stops accepting
CloseServer(srv) == IF srv = "listening" THEN "closed" ELSE srv

\* resolve / reject of the startOAuthServer promise: only the first one counts
Resolve(p) == IF p = "pending" THEN "resolved" ELSE p
Reject(p) == IF p = "pending" THEN "rejected" ELSE p

ProcessAlive == pc # "crashed"

\* ensureTokenDirectory (photo-view.ts 404) / fs.mkdir in main (server.ts 325)
EnsureTokenDirectory ==
    /\ pc = "start"
    /\ entry \in {"server", "tasks", "viewer", "uploader"}
    /\ \E ok \in BOOLEAN :
         IF ok THEN pc' = "check" /\ authResult' = authResult
         ELSE pc' = "authorized" /\ authResult' = "threw"
    /\ UNCHANGED <<entry, run, envVars, credentials, server, promise, reqs, tokenFile, fileAtStart,
                   clientCreds, browserOpened, issued, failedCalls, taskVars, outcome, mediaVars>>

\* authorize: the check1PasswordCLI() guard
AuthorizeCheckCLI ==
    /\ pc = "check"
    /\ issued' = IssueAll(issued, CheckCommands(opInstalled))
    /\ IF Check1PasswordCLI(opInstalled, opSignedIn)
       THEN pc' = "creds" /\ authResult' = authResult /\ failedCalls' = failedCalls
       ELSE /\ pc' = "authorized"
            /\ authResult' = "null"
            /\ failedCalls' = failedCalls \cup
                 {IF OpVersionOk(opInstalled) THEN Step("op_item_list", 0)
                  ELSE Step("op_version", 0)}
    /\ UNCHANGED <<entry, run, envVars, credentials, server, promise, reqs, tokenFile, fileAtStart,
                   clientCreds, browserOpened, taskVars, outcome, mediaVars>>

\* authorize: getCredentialsFrom1Password(REDIRECT_URI) and the null guard
AuthorizeGetCredentials ==
    /\ pc = "creds"
    /\ credentials' =
         GetCredentialsFrom1Password(opInstalled, opSignedIn, opFields, opRaw, REDIRECT_URI)
    /\ issued' = IssueAll(issued, LookupCommands(opInstalled, opSignedIn, opFields))
    /\ failedCalls' = failedCalls \cup LookupFailures(opInstalled, opSignedIn, opFields)
    /\ IF credentials'.isNull
       THEN pc' = "authorized" /\ authResult' = "null"
       ELSE /\ pc' = IF entry = "server" THEN "load" ELSE "newtoken"
            /\ authResult' = authResult
    /\ UNCHANGED <<entry, run, envVars, server, promise, reqs, tokenFile, fileAtStart,
                   clientCreds, browserOpened, taskVars, outcome, mediaVars>>

\* server.ts authorize: fs.readFile(TOKEN_PATH) and JSON.parse; reuse the stored token when
\* it reads and parses, otherwise (catch) go on to a new flow
AuthorizeLoadToken ==
    /\ pc = "load"
    /\ issued' = Issue(issued, Step("readFile", 0))
    /\ \E readOk \in BOOLEAN :
         /\ failedCalls' = IF readOk /\ tokenFile.kind # "none"
                           THEN failedCalls ELSE failedCalls \cup {Step("readFile", 0)}
         /\ IF readOk /\ tokenFile.kind = "json"
            THEN /\ clientCreds' = JSONParse(tokenFile.body)
                 /\ authResult' = "client"
                 /\ pc' = "authorized"
            ELSE /\ pc' = "newtoken"
                 /\ UNCHANGED <<clientCreds, authResult>>
    /\ UNCHANGED <<entry, run, envVars, credentials, server, promise, reqs, tokenFile, fileAtStart,
                   browserOpened, taskVars, outcome, mediaVars>>

\* getNewToken: startOAuthServer(oAuth2Client) creates the promise and calls app.listen
StartOAuthServer ==
    /\ pc = "newtoken"
    /\ server' = "binding"
    /\ promise' = "pending"
    /\ fileAtStart' = tokenFile
    /\ pc' = "delay"
    /\ UNCHANGED <<entry, run, envVars, credentials, reqs, tokenFile, clientCreds,
                   browserOpened, authResult, issued, failedCalls, taskVars, outcome, mediaVars>>

\* the listen callback: the port is bound
ServerListening ==
    /\ ProcessAlive
    /\ server = "binding"
    /\ server' = "listening"
    /\ UNCHANGED <<entry, run, pc, envVars, credentials, promise, reqs, tokenFile, fileAtStart,
                   clientCreds, browserOpened, authResult, issued, failedCalls, taskVars,
                   outcome, mediaVars>>

\* server.on("error"): reject(err), at bind time (EADDRINUSE ...) or while listening
ServerError ==
    /\ ProcessAlive
    /\ server \in {"binding", "listening"}
    /\ server' = IF server = "binding" THEN "failed" ELSE server
    /\ promise' = Reject(promise)
    /\ UNCHANGED <<entry, run, pc, envVars, credentials, reqs, tokenFile, fileAtStart,
                   clientCreds, browserOpened, authResult, issued, failedCalls, taskVars,
                   outcome, mediaVars>>

\* getNewToken: after the 500 ms delay, openURL(authUrl)
OpenAuthUrl ==
    /\ pc = "delay"
    /\ browserOpened' = TRUE
    /\ pc' = "await"
    /\ UNCHANGED <<entry, run, envVars, credentials, server, promise, reqs, tokenFile, fileAtStart,
                   clientCreds, authResult, issued, failedCalls, taskVars, outcome, mediaVars>>

\* the promise was rejected while nothing awaited it: the runtime may end the process
UnhandledRejection ==
    /\ pc = "delay"
    /\ promise = "rejected"
    /\ pc' = "crashed"
    /\ outcome' = "crashed"
    /\ UNCHANGED <<entry, run, envVars, credentials, authVars, issued, failedCalls,
                   taskVars, mediaVars>>

\* getNewToken: return await serverPromise, or log and rethrow
AwaitServerPromise ==
    /\ pc = "await"
    /\ promise \in {"resolved", "rejected"}
    /\ authResult' = IF promise = "resolved" THEN "client" ELSE "threw"
    /\ pc' = "authorized"
    /\ UNCHANGED <<entry, run, envVars, credentials, server, promise, reqs, tokenFile, fileAtStart,
                   clientCreds, browserOpened, issued, failedCalls, taskVars, outcome, mediaVars>>

\* what the GET / handler does with the query before its first await
HandleQuery(q) ==
    IF Truthy(q.error) THEN "oauth_error"
    ELSE IF ~Truthy(q.code) \/ ~IsString(q.code) THEN "no_code"
    ELSE "exchange"

\* app.get("/"): a request arrives while the listener accepts; the handler runs to its first await
Callback(r) ==
    /\ ProcessAlive
    /\ server = "listening"
    /\ reqs[r].st = "idle"
    /\ IF r = 1 THEN TRUE ELSE reqs[r - 1].st # "idle"
    /\ \E q \in Queries :
         LET todo == HandleQuery(q) IN
         IF todo = "exchange"
         THEN /\ reqs' = [reqs EXCEPT ![r].st = "exchanging"]
              /\ issued' = Issue(issued, Step("exchange", r))
              /\ UNCHANGED <<server, promise>>
         ELSE /\ reqs' = [reqs EXCEPT ![r].st = "done", ![r].status = 400]
              /\ server' = CloseServer(server)
              /\ promise' = Reject(promise)
              /\ issued' = issued
    /\ UNCHANGED <<entry, run, pc, envVars, credentials, tokenFile, fileAtStart, clientCreds,
                   browserOpened, authResult, failedCalls, taskVars, outcome, mediaVars>>

\* oAuth2Client.getToken(code) settles: setCredentials and start saveToken, or the catch block
ExchangeDone(r) ==
    /\ ProcessAlive
    /\ reqs[r].st = "exchanging"
    /\ \/ \E t \in TokenRecords :
            /\ reqs' = [reqs EXCEPT ![r].st = "saving", ![r].tokens = t]
            /\ clientCreds' = t
            /\ issued' = Issue(issued, Step("writeFile", r))
            /\ UNCHANGED <<server, promise, failedCalls>>
       \/ /\ reqs' = [reqs EXCEPT ![r].st = "done", ![r].status = 500]
          /\ server' = CloseServer(server)
          /\ promise' = Reject(promise)
          /\ failedCalls' = failedCalls \cup {Step("exchange", r)}
          /\ UNCHANGED <<clientCreds, issued>>
    /\ UNCHANGED <<entry, run, pc, envVars, credentials, tokenFile, fileAtStart, browserOpened,
                   authResult, taskVars, outcome, mediaVars>>

\* saveToken settles: send the success page and arm the 1000 ms timer, or the catch block
SaveDone(r) ==
    /\ ProcessAlive
    /\ reqs[r].st = "saving"
    /\ \/ /\ tokenFile' = SaveToken(tokenFile, reqs[r].tokens)
          /\ reqs' = [reqs EXCEPT ![r].st = "timer", ![r].status = 200]
          /\ UNCHANGED <<server, promise, failedCalls>>
       \/ /\ tokenFile' \in {tokenFile, CorruptFile}
          /\ reqs' = [reqs EXCEPT ![r].st = "done", ![r].status = 500]
          /\ server' = CloseServer(server)
          /\ promise' = Reject(promise)
          /\ failedCalls' = failedCalls \cup {Step("writeFile", r)}
    /\ UNCHANGED <<entry, run, pc, envVars, credentials, fileAtStart, clientCreds,
                   browserOpened, authResult, issued, taskVars, outcome, mediaVars>>

\* the setTimeout callback: server?.close(); resolve(oAuth2Client)
TimerFire(r) ==
    /\ ProcessAlive
    /\ reqs[r].st = "timer"
    /\ reqs' = [reqs EXCEPT ![r].st = "done"]
    /\ server' = CloseServer(server)
    /\ promise' = Resolve(promise)
    /\ UNCHANGED <<entry, run, pc, envVars, credentials, tokenFile, fileAtStart, clientCreds,
                   browserOpened, authResult, issued, failedCalls, taskVars, outcome, mediaVars>>

-----------------------------------------------------------------------------
(* The Google Tasks entry point: getTaskLists, getTasks, main *)

ListIds == 1..MaxLists

\* the task lists an account may hold: distinct ids, at most MaxLists of them
Injective(q) == \A a, b \in 1..Len(q) : a # b => q[a] # q[b]

RECURSIVE InjectiveSeqs(_, _)
InjectiveSeqs(ids, n) ==
    IF n = 0 THEN {<<>>}
    ELSE LET shorter == InjectiveSeqs(ids, n - 1)
             longer == {Append(q, x) : q \in {w \in shorter : Len(w) = n - 1}, x \in ids}
         IN  shorter \cup {q \in longer : Injective(q)}

TaskItemSeqs == {<<>>, <<"t1">>, <<"t2">>, <<"t1", "t2">>}

\* what tasks.tasklists.list / tasks.tasks.list come back with
ApiFailure == [kind |-> "fail", items |-> <<>>]
ApiNoItems == [kind |-> "noitems", items |-> <<>>]
ApiItems(items) == [kind |-> "items", items |-> items]

TaskListResponses ==
    {ApiFailure, ApiNoItems} \cup {ApiItems(q) : q \in InjectiveSeqs(ListIds, MaxLists)}

TaskResponses == {ApiFailure, ApiNoItems} \cup {ApiItems(q) : q \in TaskItemSeqs}

\* getTaskLists / getTasks: res.data.items || [], and [] from the catch block
ItemsOrEmpty(resp) == IF resp.kind = "items" THEN resp.items ELSE <<>>

PendingRead(id) == [tasklist |-> id, st |-> "pending", value |-> <<>>]

\* a fan-out that calls getTasks twice for every list
FanOutTwice(lists) == [i \in 1..(2 * Len(lists)) |-> PendingRead(lists[((i - 1) % Len(lists)) + 1])]

\* taskLists.map((taskList) => getTasks(auth, taskList.id)): one call per list, in order
FanOut(lists) == [i \in 1..Len(lists) |-> PendingRead(lists[i])]

\* the tasks.tasks.list requests the calls of a fan-out send
RECURSIVE IssueReads(_, _)
IssueReads(log, rs) ==
    IF rs = <<>> THEN log ELSE IssueReads(Issue(log, Step("tasks", Head(rs).tasklist)), Tail(rs))

\* a fan-out that collects the results in the order the reads settle
PromiseAllByCompletion(rs, order) == [i \in 1..Len(rs) |-> rs[order[i]].value]

\* Promise.all: the values in the order of the promises, whatever order they settled in
PromiseAll(rs, order) == [i \in 1..Len(rs) |-> rs[i].value]

RECURSIVE TotalTasks(_)
TotalTasks(all) == IF all = <<>> THEN 0 ELSE Len(Head(all)) + TotalTasks(Tail(all))

\* main after `await authorize()`: the !auth guard, or getTaskLists is called
TasksMainAuthorized ==
    /\ pc = "authorized"
    /\ entry \in {"server", "tasks"}
    /\ IF authResult = "null"
       THEN pc' = "done" /\ outcome' = "authorize_failed" /\ issued' = issued
       ELSE IF authResult = "threw"
       THEN pc' = "done" /\ outcome' = "error_logged" /\ issued' = issued
       ELSE /\ pc' = "tasklists"
            /\ outcome' = outcome
            /\ issued' = Issue(issued, Step("tasklists", 0))
    /\ UNCHANGED <<entry, run, envVars, credentials, authVars, failedCalls, taskVars, mediaVars>>

\* getTaskLists settles; main returns on an empty result or fans the getTasks calls out
GetTaskListsDone ==
    /\ pc = "tasklists"
    /\ \E resp \in TaskListResponses :
         LET lists == ItemsOrEmpty(resp) IN
         /\ taskLists' = lists
         /\ failedCalls' = IF resp.kind = "fail"
                           THEN failedCalls \cup {Step("tasklists", 0)} ELSE failedCalls
         /\ IF Len(lists) = 0
            THEN /\ pc' = "done"
                 /\ outcome' = "no_task_lists"
                 /\ UNCHANGED <<reads, issued>>
            ELSE /\ pc' = "fanout"
                 /\ reads' = FanOut(lists)
                 /\ issued' = IssueReads(issued, FanOut(lists))
                 /\ outcome' = outcome
    /\ UNCHANGED <<entry, run, envVars, credentials, authVars, doneOrder, shown, mediaVars>>

\* one getTasks promise settles
GetTasksDone(i) ==
    /\ pc = "fanout"
    /\ i \in 1..Len(reads)
    /\ reads[i].st = "pending"
    /\ \E resp \in TaskResponses :
         /\ reads' = [reads EXCEPT ![i].st = "settled", ![i].value = ItemsOrEmpty(resp)]
         /\ failedCalls' = IF resp.kind = "fail"
                           THEN failedCalls \cup {Step("tasks", reads[i].tasklist)}
                           ELSE failedCalls
    /\ doneOrder' = Append(doneOrder, i)
    /\ UNCHANGED <<entry, run, pc, envVars, credentials, authVars, issued, taskLists,
                   shown, outcome, mediaVars>>

\* Promise.all is fulfilled: the display block of main
DisplayTasks ==
    /\ pc = "fanout"
    /\ \A i \in 1..Len(reads) : reads[i].st = "settled"
    /\ LET allTasks == PromiseAll(reads, doneOrder) IN
       /\ shown' = [i \in 1..Len(taskLists) |-> allTasks[i]]
       /\ outcome' = IF TotalTasks(allTasks) = 0 THEN "all_caught_up" ELSE "total_pending"
    /\ pc' = "done"
    /\ UNCHANGED <<entry, run, envVars, credentials, authVars, issued, failedCalls,
                   taskLists, reads, doneOrder, mediaVars>>

-----------------------------------------------------------------------------
(* File names and GooglePhotosUploader.getMimeType *)

UpperChars == <<"A", "B", "C", "D", "E", "F", "G", "H", "I", "J", "K", "L", "M",
                "N", "O", "P", "Q", "R", "S", "T", "U", "V", "W", "X", "Y", "Z">>
LowerChars == <<"a", "b", "c", "d", "e", "f", "g", "h", "i", "j", "k", "l", "m",
                "n", "o", "p", "q", "r", "s", "t", "u", "v", "w", "x", "y", "z">>

ToLowerChar(c) ==
    IF \E i \in 1..Len(UpperChars) : UpperChars[i] = c
    THEN LowerChars[CHOOSE i \in 1..Len(UpperChars) : UpperChars[i] = c] ELSE c

ToUpperChar(c) ==
    IF \E i \in 1..Len(LowerChars) : LowerChars[i] = c
    THEN UpperChars[CHOOSE i \in 1..Len(LowerChars) : LowerChars[i] = c] ELSE c

\* String.prototype.toLowerCase, on a sequence of characters
ToLowerCase(str) == [i \in 1..Len(str) |-> ToLowerChar(str[i])]

ToUpperCase(str) == [i \in 1..Len(str) |-> ToUpperChar(str[i])]

\* index of the last "." of a name, 0 when it has none
LastDot(name) ==
    IF \E i \in 1..Len(name) : name[i] = "."
    THEN CHOOSE i \in 1..Len(name) :
             name[i] = "." /\ \A j \in (i + 1)..Len(name) : name[j] # "."
    ELSE 0

\* path.basename of a path without trailing slashes
Basename(path) ==
    IF \E i \in 1..Len(path) : path[i] = "/"
    THEN LET cut == CHOOSE i \in 1..Len(path) :
                        path[i] = "/" /\ \A j \in (i + 1)..Len(path) : path[j] # "/"
         IN  SubSeq(path, cut + 1, Len(path))
    ELSE path

\* path.extname of a name without slashes: from the last "." to the end; empty when
\* there is no ".", when the only "." leads the name, and for ".."
ExtName(name) ==
    LET dot == LastDot(name) IN
    IF dot = 0 \/ dot = 1 THEN <<>>
    ELSE IF name[1] = "." /\ dot = Len(name) /\ dot = 2 THEN <<>>
    ELSE SubSeq(name, dot, Len(name))

DefaultMimeType == "application/octet-stream"

\* the mimeTypes table of getMimeType
MimeTypes ==
    (<<".", "j", "p", "g">> :> "image/jpeg") @@
    (<<".", "j", "p", "e", "g">> :> "image/jpeg") @@
    (<<".", "p", "n", "g">> :> "image/png") @@
    (<<".", "g", "i", "f">> :> "image/gif") @@
    (<<".", "w", "e", "b", "p">> :> "image/webp") @@
    (<<".", "b", "m", "p">> :> "image/bmp") @@
    (<<".", "t", "i", "f", "f">> :> "image/tiff") @@
    (<<".", "t", "i", "f">> :> "image/tiff") @@
    (<<".", "h", "e", "i", "c">> :> "image/heic") @@
    (<<".", "a", "v", "i", "f">> :> "image/avif") @@
    (<<".", "m", "p", "4">> :> "video/mp4") @@
    (<<".", "m", "o", "v">> :> "video/quicktime") @@
    (<<".", "a", "v", "i">> :> "video/x-msvideo") @@
    (<<".", "m", "k", "v">> :> "video/x-matroska") @@
    (<<".", "w", "e", "b", "m">> :> "video/webm")

\* a lookup that forgets to lower-case the extension
GetMimeTypeCaseSensitive(name) ==
    LET ext == ExtName(name) IN
    IF ext \in DOMAIN MimeTypes THEN MimeTypes[ext] ELSE DefaultMimeType

\* getMimeType: mimeTypes[path.extname(fileName).toLowerCase()] || default
GetMimeType(name) ==
    LET ext == ToLowerCase(ExtName(name)) IN
    IF ext \in DOMAIN MimeTypes THEN MimeTypes[ext] ELSE DefaultMimeType

-----------------------------------------------------------------------------
(* The media-library HTTP operations of GooglePhotosViewer / GooglePhotosUploader *)

Statuses == {200, 299, 300, 404}

\* what comes back for an https.request: an "error" event, or a status and a body
TransportError == [error |-> TRUE, status |-> 0, json |-> FALSE]
HttpResponses == {TransportError} \cup [error : {FALSE}, status : Statuses, json : BOOLEAN]

\* no request of the call has been answered
NoAnswer == [error |-> FALSE, status |-> 0, json |-> FALSE]

NoError == [wrap |-> <<>>, msg |-> "", status |-> 0]
Err(msg, status) == [wrap |-> <<>>, msg |-> msg, status |-> status]

\* throw new Error(`${prefix}: ${errorMessage}`)
Wrap(prefix, e) == [e EXCEPT !.wrap = <<prefix>> \o @]

\* the messages of each operation
OpMessages(op) ==
    CASE op = "list" ->
           [failed |-> "List request failed", transport |-> "List request failed",
            wrapper |-> "Failed to list media items"]
      [] op = "get" ->
           [failed |-> "Get media item failed", transport |-> "Get media item request failed",
            wrapper |-> "Failed to get media item"]
      [] op = "upload" ->
           [failed |-> "Upload failed", transport |-> "Upload request failed",
            wrapper |-> "Failed to upload bytes"]
      [] op = "batchCreate" ->
           [failed |-> "BatchCreate failed", transport |-> "BatchCreate request failed",
            wrapper |-> "Failed to create media items"]

\* res.statusCode && res.statusCode >= 200 && res.statusCode < 300
Is2xx(status) == status # 0 /\ status >= 200 /\ status < 300

\* the promise of listMediaItems / getMediaItem / batchCreateMediaItems settles:
\* JSON.parse first, then the status test; the enclosing try/catch does not see it
SettleJson(op, resp) ==
    IF resp.error THEN [ok |-> FALSE, error |-> Err(OpMessages(op).transport, 0)]
    ELSE IF ~resp.json THEN [ok |-> FALSE, error |-> Err("Failed to parse response", 0)]
    ELSE IF Is2xx(resp.status) THEN [ok |-> TRUE, error |-> NoError]
    ELSE [ok |-> FALSE, error |-> Err(OpMessages(op).failed, resp.status)]

\* the promise of uploadBytes settles: the body is the raw upload token, never parsed
SettleRaw(op, resp) ==
    IF resp.error THEN [ok |-> FALSE, error |-> Err(OpMessages(op).transport, 0)]
    ELSE IF Is2xx(resp.status) THEN [ok |-> TRUE, error |-> NoError]
    ELSE [ok |-> FALSE, error |-> Err(OpMessages(op).failed, resp.status)]

Settle(op, resp) == IF op = "upload" THEN SettleRaw(op, resp) ELSE SettleJson(op, resp)

NoCall == [op |-> "none", pageSize |-> 0, pageToken |-> Undef, item |-> 0, arg |-> Undef]

DEFAULT_PAGE_SIZE == 25

\* ListOptions: pageSize may be left out (given = FALSE)
ListOptions(given, pageSize, pageToken) ==
    [given |-> given, pageSize |-> pageSize, pageToken |-> pageToken]

\* a request that never carries a page token
ListRequestFirstPage(options) ==
    [op |-> "list",
     pageSize |-> IF options.given THEN options.pageSize ELSE DEFAULT_PAGE_SIZE,
     pageToken |-> Undef,
     item |-> 0,
     arg |-> Undef]

\* the request listMediaItems builds: pageSize defaults to 25, pageToken is set only when truthy
ListRequest(options) ==
    [op |-> "list",
     pageSize |-> IF options.given THEN options.pageSize ELSE DEFAULT_PAGE_SIZE,
     pageToken |-> IF Truthy(options.pageToken) THEN options.pageToken ELSE Undef,
     item |-> 0,
     arg |-> Undef]

GetRequest(mediaItemId) ==
    [op |-> "get", pageSize |-> 0, pageToken |-> Undef, item |-> mediaItemId, arg |-> Undef]

UploadRequest(contentType) ==
    [op |-> "upload", pageSize |-> 0, pageToken |-> Undef, item |-> 0, arg |-> contentType]

\* a request that carries a fixed token, whatever the upload returned
BatchCreateRequestStale(token) ==
    [op |-> "batchCreate", pageSize |-> 0, pageToken |-> Undef, item |-> 0, arg |-> "u1"]

\* batchCreateMediaItems is called by uploadFile with one upload token
BatchCreateRequest(token) ==
    [op |-> "batchCreate", pageSize |-> 0, pageToken |-> Undef, item |-> 0, arg |-> token]

\* guards that look at the access token only
PreflightTokenOnly(op, auth, creds) ==
    IF ~Truthy(creds.access_token)
    THEN Wrap(OpMessages(op).wrapper, Err("No access token available", 0))
    ELSE NoError

\* the guards before a request is sent: this.auth, then getAccessToken inside the try
Preflight(op, auth, creds) ==
    IF auth # "client" THEN Err("Not authenticated. Call initialize() first.", 0)
    ELSE IF ~Truthy(creds.access_token)
    THEN Wrap(OpMessages(op).wrapper, Err("No access token available", 0))
    ELSE NoError

-----------------------------------------------------------------------------
(* The media library as the service holds it *)

MaxPages == 3      \* pages the library spans
MaxPerPage == 2    \* media items on one page

\* continuation tokens: PageTokens[i] names page i
PageTokens == <<"tok1", "tok2", "tok3", "tok4", "tok5">>

PageItems(i, n) == [k \in 1..n |-> 10 * i + k]

\* page i of a library of n pages; size -1 is a response without a mediaItems member
LibraryPage(i, n, size, endToken) ==
    [hasItems |-> size >= 0,
     items |-> IF size >= 0 THEN PageItems(i, size) ELSE <<>>,
     next |-> IF i < n THEN PageTokens[i + 1] ELSE endToken]

\* every page but the last carries the token of its successor; the last carries none
Libraries ==
    UNION {{[i \in 1..n |-> LibraryPage(i, n, sizes[i], endToken)] :
               sizes \in [1..n -> -1..MaxPerPage], endToken \in {Undef, ""}} :
           n \in 1..MaxPages}

\* the page the service answers a list request with
ServePage(lib, request) ==
    IF request.pageToken = Undef THEN lib[1]
    ELSE lib[CHOOSE i \in 1..Len(PageTokens) : PageTokens[i] = request.pageToken]

-----------------------------------------------------------------------------
(* GooglePhotosViewer.listAllMediaItems *)

\* a loop body that keeps only the latest page
PushItemsReplacing(all, page) == IF page.hasItems THEN page.items ELSE all

\* if (response.mediaItems) allItems.push(...response.mediaItems)
PushItems(all, page) == IF page.hasItems THEN all \o page.items ELSE all

\* a loop that goes on while pages bring items
HasNextPageWhileItems(page) == page.hasItems /\ page.items # <<>> /\ Truthy(page.next)

\* while (nextPageToken)
HasNextPage(page) == Truthy(page.next)

\* a direct call of listAllMediaItems(pageSize): the first listMediaItems request
ListAllStart ==
    /\ pc = "la_start"
    /\ \E given \in BOOLEAN :
         LET pre == Preflight("list", authResult, clientCreds)
             request == ListRequest(ListOptions(given, 10, Undef)) IN
         IF pre # NoError
         THEN /\ pc' = "la_failed"
              /\ mediaError' = pre
              /\ UNCHANGED <<call, requestLog, issued>>
         ELSE /\ pc' = "la_wait"
              /\ call' = request
              /\ requestLog' = Append(requestLog, request)
              /\ issued' = Issue(issued, Step("list", Len(requestLog) + 1))
              /\ mediaError' = mediaError
    /\ allItems' = <<>>
    /\ UNCHANGED <<entry, run, envVars, credentials, authVars, failedCalls, taskVars,
                   outcome, pages, mediaValue, fileName, mimeType,
                   uploadToken, response, answer>>

\* a list response arrives: the rest of the loop body, then the next request or the return
ListAllResponse ==
    /\ pc = "la_wait"
    /\ \E resp \in HttpResponses :
         LET settled == SettleJson("list", resp)
             page == ServePage(pages, call)
             request == ListRequest(ListOptions(TRUE, call.pageSize, page.next))
             pre == Preflight("list", authResult, clientCreds) IN
         IF ~settled.ok
         THEN /\ pc' = "la_failed"
              /\ mediaError' = settled.error
              /\ failedCalls' = failedCalls \cup {Step("list", Len(requestLog))}
              /\ call' = NoCall
              /\ UNCHANGED <<allItems, requestLog, issued>>
         ELSE /\ allItems' = PushItems(allItems, page)
              /\ failedCalls' = failedCalls
              /\ IF ~HasNextPage(page)
                 THEN /\ pc' = "la_returned"
                      /\ call' = NoCall
                      /\ UNCHANGED <<requestLog, issued, mediaError>>
                 ELSE IF pre # NoError
                 THEN /\ pc' = "la_failed"
                      /\ mediaError' = pre
                      /\ call' = NoCall
                      /\ UNCHANGED <<requestLog, issued>>
                 ELSE /\ pc' = "la_wait"
                      /\ call' = request
                      /\ requestLog' = Append(requestLog, request)
                      /\ issued' = Issue(issued, Step("list", Len(requestLog) + 1))
                      /\ mediaError' = mediaError
    /\ UNCHANGED <<entry, run, envVars, credentials, authVars, taskVars,
                   outcome, pages, mediaValue, fileName, mimeType,
                   uploadToken, response, answer>>

-----------------------------------------------------------------------------
(* main of the viewer (photo-view.ts 316-368) *)

\* after viewer.initialize(): return, the catch block, or listMediaItems({ pageSize: 10 })
ViewerMainAuthorized ==
    /\ pc = "authorized"
    /\ entry = "viewer"
    /\ LET pre == Preflight("list", authResult, clientCreds)
           request == ListRequest(ListOptions(TRUE, 10, Undef)) IN
       IF authResult = "null"
       THEN /\ pc' = "done" /\ outcome' = "authorize_failed"
            /\ UNCHANGED <<call, requestLog, issued, mediaError>>
       ELSE IF authResult = "threw"
       THEN /\ pc' = "done" /\ outcome' = "error_setup_instructions"
            /\ UNCHANGED <<call, requestLog, issued, mediaError>>
       ELSE IF pre # NoError
       THEN /\ pc' = "done" /\ outcome' = "error_setup_instructions"
            /\ mediaError' = pre
            /\ UNCHANGED <<call, requestLog, issued>>
       ELSE /\ pc' = "v_list" /\ outcome' = outcome
            /\ call' = request
            /\ requestLog' = Append(requestLog, request)
            /\ issued' = Issue(issued, Step("list", 1))
            /\ mediaError' = mediaError
    /\ UNCHANGED <<entry, run, envVars, credentials, authVars, failedCalls, taskVars,
                   pages, allItems, mediaValue, fileName, mimeType,
                   uploadToken, response, answer>>

\* the list response arrives: display and getMediaItem(firstItem.id), or nothing to show
ViewerListDone ==
    /\ pc = "v_list"
    /\ \E resp \in HttpResponses :
         LET settled == SettleJson("list", resp)
             page == ServePage(pages, call)
             pre == Preflight("get", authResult, clientCreds) IN
         IF ~settled.ok
         THEN /\ pc' = "done" /\ outcome' = "error_setup_instructions"
              /\ mediaError' = settled.error
              /\ failedCalls' = failedCalls \cup {Step("list", 1)}
              /\ call' = NoCall
              /\ UNCHANGED <<requestLog, issued, allItems>>
         ELSE IF ~(page.hasItems /\ Len(page.items) > 0)
         THEN /\ pc' = "done" /\ outcome' = "no_media_items"
              /\ call' = NoCall
              /\ UNCHANGED <<requestLog, issued, allItems, mediaError, failedCalls>>
         ELSE IF pre # NoError
         THEN /\ pc' = "done" /\ outcome' = "error_setup_instructions"
              /\ mediaError' = pre
              /\ allItems' = page.items
              /\ call' = NoCall
              /\ UNCHANGED <<requestLog, issued, failedCalls>>
         ELSE /\ pc' = "v_get" /\ outcome' = outcome
              /\ allItems' = page.items
              /\ call' = GetRequest(page.items[1])
              /\ requestLog' = Append(requestLog, GetRequest(page.items[1]))
              /\ issued' = Issue(issued, Step("get", 1))
              /\ UNCHANGED <<mediaError, failedCalls>>
    /\ UNCHANGED <<entry, run, envVars, credentials, authVars, taskVars,
                   pages, mediaValue, fileName, mimeType,
                   uploadToken, response, answer>>

\* the getMediaItem response arrives
ViewerGetDone ==
    /\ pc = "v_get"
    /\ \E resp \in HttpResponses :
         LET settled == SettleJson("get", resp) IN
         IF ~settled.ok
         THEN /\ outcome' = "error_setup_instructions"
              /\ mediaError' = settled.error
              /\ failedCalls' = failedCalls \cup {Step("get", 1)}
              /\ mediaValue' = mediaValue
         ELSE /\ outcome' = "listed"
              /\ mediaValue' = call.item
              /\ UNCHANGED <<mediaError, failedCalls>>
    /\ pc' = "done"
    /\ call' = NoCall
    /\ UNCHANGED <<entry, run, envVars, credentials, authVars, issued, taskVars,
                   pages, requestLog, allItems, fileName, mimeType,
                   uploadToken, response, answer>>

-----------------------------------------------------------------------------
(* GooglePhotosUploader.uploadFile and main of the uploader (photo-view.ts 878-1017) *)

\* const catImagePath = "assets/cat.jpg"
CatImagePath == <<"a", "s", "s", "e", "t", "s", "/", "c", "a", "t", ".", "j", "p", "g">>

\* the raw text an upload answers with (a 2xx answer may have an empty body)
UploadTokens == {"u1", "u2", ""}

NoBatchResult == [isNull |-> FALSE, hasMediaItem |-> FALSE, item |-> 0]
NullBatchResult == [isNull |-> TRUE, hasMediaItem |-> FALSE, item |-> 0]

\* parsed bodies of a batchCreate response
BatchResponses ==
    {[hasResults |-> FALSE, results |-> <<>>],
     [hasResults |-> TRUE, results |-> <<>>],
     [hasResults |-> TRUE, results |-> <<NoBatchResult>>],
     [hasResults |-> TRUE, results |-> <<NullBatchResult>>],
     [hasResults |-> TRUE, results |-> <<[isNull |-> FALSE, hasMediaItem |-> TRUE, item |-> 7]>>]}

\* the body batchCreateMediaItems resolved with, once it has
NoResponse == [received |-> FALSE, body |-> [hasResults |-> FALSE, results |-> <<>>]]
Received(body) == [received |-> TRUE, body |-> body]

\* uploadFile after batchCreateMediaItems resolved: the result checks
UploadFileResult(body) ==
    IF ~body.hasResults \/ Len(body.results) = 0
    THEN [ok |-> FALSE, item |-> 0, error |-> Err("No results returned from batchCreate", 0)]
    ELSE IF body.results[1].isNull
    THEN [ok |-> FALSE, item |-> 0, error |-> Err("Invalid result returned from batchCreate", 0)]
    ELSE IF body.results[1].hasMediaItem
    THEN [ok |-> TRUE, item |-> body.results[1].item, error |-> NoError]
    ELSE [ok |-> FALSE, item |-> 0, error |-> Err("Failed to create media item", 0)]

\* a catch block that rethrows the error as it is
UploadFileErrorBare(e) == e

\* the catch block of uploadFile
UploadFileError(e) == Wrap("Failed to upload file", e)

\* after uploader.initialize(): fs.access, then uploadFile -> uploadBytes up to its request
UploaderMainAuthorized ==
    /\ pc = "authorized"
    /\ entry = "uploader"
    /\ \E accessOk \in BOOLEAN, readOk \in BOOLEAN :
         LET pre == Preflight("upload", authResult, clientCreds)
             name == Basename(CatImagePath)
             request == UploadRequest(GetMimeType(name)) IN
         IF authResult = "null"
         THEN /\ pc' = "done" /\ outcome' = "authorize_failed"
              /\ UNCHANGED <<call, requestLog, issued, mediaError, fileName, mimeType>>
         ELSE IF authResult = "threw"
         THEN /\ pc' = "done" /\ outcome' = "error_setup_instructions"
              /\ UNCHANGED <<call, requestLog, issued, mediaError, fileName, mimeType>>
         ELSE IF ~accessOk
         THEN /\ pc' = "done" /\ outcome' = "file_not_found"
              /\ UNCHANGED <<call, requestLog, issued, mediaError, fileName, mimeType>>
         ELSE IF ~readOk
         THEN /\ pc' = "done" /\ outcome' = "error_setup_instructions"
              /\ mediaError' = UploadFileError(Wrap(OpMessages("upload").wrapper,
                                                    Err("readFile failed", 0)))
              /\ UNCHANGED <<call, requestLog, issued, fileName, mimeType>>
         ELSE IF pre # NoError
         THEN /\ pc' = "done" /\ outcome' = "error_setup_instructions"
              /\ mediaError' = UploadFileError(pre)
              /\ fileName' = name
              /\ mimeType' = GetMimeType(name)
              /\ UNCHANGED <<call, requestLog, issued>>
         ELSE /\ pc' = "u_upload" /\ outcome' = outcome
              /\ fileName' = name
              /\ mimeType' = GetMimeType(name)
              /\ call' = request
              /\ requestLog' = Append(requestLog, request)
              /\ issued' = Issue(issued, Step("upload", 1))
              /\ mediaError' = mediaError
    /\ UNCHANGED <<entry, run, envVars, credentials, authVars, failedCalls, taskVars,
                   pages, allItems, mediaValue, uploadToken, response, answer>>

\* the upload response arrives: batchCreateMediaItems with the returned token, or the catch
UploadBytesDone ==
    /\ pc = "u_upload"
    /\ \E resp \in HttpResponses, token \in UploadTokens :
         LET settled == Settle("upload", resp)
             pre == Preflight("batchCreate", authResult, clientCreds)
             request == BatchCreateRequest(token) IN
         IF ~settled.ok
         THEN /\ pc' = "done" /\ outcome' = "error_setup_instructions"
              /\ mediaError' = UploadFileError(settled.error)
              /\ failedCalls' = failedCalls \cup {Step("upload", 1)}
              /\ call' = NoCall
              /\ UNCHANGED <<requestLog, issued, uploadToken>>
         ELSE IF pre # NoError
         THEN /\ pc' = "done" /\ outcome' = "error_setup_instructions"
              /\ mediaError' = UploadFileError(pre)
              /\ uploadToken' = token
              /\ call' = NoCall
              /\ UNCHANGED <<requestLog, issued, failedCalls>>
         ELSE /\ pc' = "u_create" /\ outcome' = outcome
              /\ call' = request
              /\ requestLog' = Append(requestLog, request)
              /\ issued' = Issue(issued, Step("batchCreate", 1))
              /\ uploadToken' = token
              /\ UNCHANGED <<mediaError, failedCalls>>
    /\ UNCHANGED <<entry, run, envVars, credentials, authVars, taskVars,
                   pages, allItems, mediaValue, fileName, mimeType, response, answer>>

\* the batchCreate response arrives: the result checks of uploadFile, then main prints
BatchCreateDone ==
    /\ pc = "u_create"
    /\ \E resp \in HttpResponses, body \in BatchResponses :
         LET settled == Settle("batchCreate", resp)
             result == UploadFileResult(body) IN
         IF ~settled.ok
         THEN /\ outcome' = "error_setup_instructions"
              /\ mediaError' = UploadFileError(settled.error)
              /\ failedCalls' = failedCalls \cup {Step("batchCreate", 1)}
              /\ UNCHANGED <<mediaValue, response>>
         ELSE IF ~result.ok
         THEN /\ outcome' = "error_setup_instructions"
              /\ mediaError' = UploadFileError(result.error)
              /\ response' = Received(body)
              /\ UNCHANGED <<failedCalls, mediaValue>>
         ELSE /\ outcome' = "upload_successful"
              /\ mediaValue' = result.item
              /\ response' = Received(body)
              /\ UNCHANGED <<failedCalls, mediaError>>
    /\ pc' = "done"
    /\ call' = NoCall
    /\ UNCHANGED <<entry, run, envVars, credentials, authVars, issued, taskVars,
                   pages, requestLog, allItems, fileName, mimeType, uploadToken, answer>>

-----------------------------------------------------------------------------
(* Direct calls of the exported credential loader and of getMimeType *)

\* getCredentialsFrom1Password(redirectUri) called in some environment
CallGetCredentials ==
    /\ pc = "cred_call"
    /\ credentials' =
         GetCredentialsFrom1Password(opInstalled, opSignedIn, opFields, opRaw, REDIRECT_URI)
    /\ issued' = IssueAll(issued, LookupCommands(opInstalled, opSignedIn, opFields))
    /\ failedCalls' = failedCalls \cup LookupFailures(opInstalled, opSignedIn, opFields)
    /\ pc' = "cred_returned"
    /\ UNCHANGED <<entry, run, envVars, authVars, taskVars, outcome, mediaVars>>

\* getMimeType(fileName)
CallGetMimeType ==
    /\ pc = "mime_call"
    /\ mimeType' = GetMimeType(fileName)
    /\ pc' = "mime_returned"
    /\ UNCHANGED <<entry, run, envVars, credentials, authVars, issued, failedCalls,
                   taskVars, outcome, pages, call, requestLog, allItems, mediaValue,
                   mediaError, fileName, uploadToken, response, answer>>

-----------------------------------------------------------------------------
(* Process runs *)

MainFinished == pc \in {"done", "crashed"}

HandlersQuiet == \A r \in Requests : reqs[r].st \in {"idle", "done"}

\* the program is started again; only the token file and the environment carry over
Restart ==
    /\ MainFinished
    /\ HandlersQuiet
    /\ run < MaxRuns
    /\ run' = run + 1
    /\ pc' = "start"
    /\ credentials' = NullCredentials
    /\ server' = "none"
    /\ promise' = "none"
    /\ reqs' = [r \in Requests |-> IdleRequest]
    /\ fileAtStart' = tokenFile
    /\ clientCreds' = NoTokens
    /\ browserOpened' = FALSE
    /\ authResult' = "pending"
    /\ issued' = NoneIssued
    /\ failedCalls' = {}
    /\ taskLists' = <<>>
    /\ reads' = <<>>
    /\ doneOrder' = <<>>
    /\ shown' = <<>>
    /\ outcome' = "none"
    /\ call' = NoCall
    /\ requestLog' = <<>>
    /\ allItems' = <<>>
    /\ mediaValue' = 0
    /\ mediaError' = NoError
    /\ fileName' = <<>>
    /\ mimeType' = "unset"
    /\ uploadToken' = Undef
    /\ response' = NoResponse
    /\ answer' = NoAnswer
    /\ UNCHANGED <<entry, envVars, tokenFile, pages>>

-----------------------------------------------------------------------------
(* Specification of the entry points *)

Fresh ==
    /\ run = 1
    /\ credentials = NullCredentials
    /\ server = "none"
    /\ promise = "none"
    /\ reqs = [r \in Requests |-> IdleRequest]
    /\ tokenFile = NoFile
    /\ fileAtStart = NoFile
    /\ browserOpened = FALSE
    /\ issued = NoneIssued
    /\ failedCalls = {}
    /\ taskLists = <<>>
    /\ reads = <<>>
    /\ doneOrder = <<>>
    /\ shown = <<>>
    /\ outcome = "none"
    /\ call = NoCall
    /\ requestLog = <<>>
    /\ allItems = <<>>
    /\ mediaValue = 0
    /\ mediaError = NoError
    /\ mimeType = "unset"
    /\ uploadToken = Undef
    /\ response = NoResponse
    /\ answer = NoAnswer

\* the library the viewer's main reads its first page from
ViewerLibraries == {lib \in Libraries : Len(lib) = 1 /\ lib[1].next = Undef}

Init ==
    /\ entry \in {"server", "tasks", "viewer", "uploader"}
    /\ pc = "start"
    /\ opInstalled \in BOOLEAN
    /\ opSignedIn \in BOOLEAN
    /\ opFields \in SUBSET CredFields
    /\ opRaw = [f \in CredFields |-> <<"x", "nl">>]
    /\ authResult = "pending"
    /\ clientCreds = NoTokens
    /\ pages \in IF entry = "viewer" THEN ViewerLibraries ELSE {<<>>}
    /\ fileName = <<>>
    /\ Fresh

Next ==
    \/ EnsureTokenDirectory
    \/ AuthorizeCheckCLI
    \/ AuthorizeGetCredentials
    \/ AuthorizeLoadToken
    \/ StartOAuthServer
    \/ ServerListening
    \/ ServerError
    \/ OpenAuthUrl
    \/ UnhandledRejection
    \/ AwaitServerPromise
    \/ \E r \in Requests : Callback(r)
    \/ \E r \in Requests : ExchangeDone(r)
    \/ \E r \in Requests : SaveDone(r)
    \/ \E r \in Requests : TimerFire(r)
    \/ TasksMainAuthorized
    \/ GetTaskListsDone
    \/ \E i \in 1..MaxLists : GetTasksDone(i)
    \/ DisplayTasks
    \/ ViewerMainAuthorized
    \/ ViewerListDone
    \/ ViewerGetDone
    \/ UploaderMainAuthorized
    \/ UploadBytesDone
    \/ BatchCreateDone
    \/ Restart

Spec == Init /\ [][Next]_vars

-----------------------------------------------------------------------------
(* Specification of direct calls of listAllMediaItems on a viewer object *)

InitPaging ==
    /\ entry = "listAllMediaItems"
    /\ pc = "la_start"
    /\ opInstalled = TRUE
    /\ opSignedIn = TRUE
    /\ opFields = CredFields
    /\ opRaw = [f \in CredFields |-> <<"x", "nl">>]
    /\ authResult \in {"pending", "client"}
    /\ clientCreds \in {t \in TokenRecords : t.refresh_token = Undef}
    /\ pages \in Libraries
    /\ fileName = <<>>
    /\ Fresh

NextPaging == ListAllStart \/ ListAllResponse

SpecPaging == InitPaging /\ [][NextPaging]_vars

-----------------------------------------------------------------------------
(* Specification of direct calls of getCredentialsFrom1Password *)

InitCredentials ==
    /\ entry = "getCredentialsFrom1Password"
    /\ pc = "cred_call"
    /\ opInstalled \in BOOLEAN
    /\ opSignedIn \in BOOLEAN
    /\ opFields \in SUBSET CredFields
    /\ opRaw \in [CredFields -> RawOutputs]
    /\ authResult = "pending"
    /\ clientCreds = NoTokens
    /\ pages = <<>>
    /\ fileName = <<>>
    /\ Fresh

NextCredentials == CallGetCredentials

SpecCredentials == InitCredentials /\ [][NextCredentials]_vars

-----------------------------------------------------------------------------
(* Specification of direct calls of getMimeType *)

KnownExtensions ==
    {<<"j", "p", "g">>, <<"j", "p", "e", "g">>, <<"p", "n", "g">>, <<"g", "i", "f">>,
     <<"w", "e", "b", "p">>, <<"b", "m", "p">>, <<"t", "i", "f", "f">>, <<"t", "i", "f">>,
     <<"h", "e", "i", "c">>, <<"a", "v", "i", "f">>, <<"m", "p", "4">>, <<"m", "o", "v">>,
     <<"a", "v", "i">>, <<"m", "k", "v">>, <<"w", "e", "b", "m">>}

OtherExtensions == {<<>>, <<"t", "x", "t">>, <<"j", "p">>, <<"j", "p", "g", "x">>}

Capitalise(w) == IF w = <<>> THEN w ELSE <<ToUpperChar(w[1])>> \o Tail(w)

CaseVariants(w) == {w, ToUpperCase(w), Capitalise(w)}

Stems == {<<>>, <<"c", "a", "t">>, <<".">>, <<"a", ".", "b">>, <<"C", "a", "t", " ", "1">>}

\* file names: stem.ext, stem.ext. , and stem followed by ext without a dot
MimeInputs ==
    UNION {UNION {{stem \o <<".">> \o ext, stem \o <<".">> \o ext \o <<".">>, stem \o ext} :
                     ext \in CaseVariants(w)} :
           stem \in Stems, w \in KnownExtensions \cup OtherExtensions}

InitMime ==
    /\ entry = "getMimeType"
    /\ pc = "mime_call"
    /\ opInstalled = TRUE
    /\ opSignedIn = TRUE
    /\ opFields = CredFields
    /\ opRaw = [f \in CredFields |-> <<"x", "nl">>]
    /\ authResult = "pending"
    /\ clientCreds = NoTokens
    /\ pages = <<>>
    /\ fileName \in MimeInputs
    /\ Fresh

NextMime == CallGetMimeType

SpecMime == InitMime /\ [][NextMime]_vars

-----------------------------------------------------------------------------
(* Specification of the uploader's main from the call of uploadFile on *)

InitUpload ==
    /\ entry = "uploader"
    /\ pc = "authorized"
    /\ opInstalled = TRUE
    /\ opSignedIn = TRUE
    /\ opFields = CredFields
    /\ opRaw = [f \in CredFields |-> <<"x", "nl">>]
    /\ authResult \in {"pending", "client"}
    /\ clientCreds \in TokenRecords
    /\ pages = <<>>
    /\ fileName = <<>>
    /\ Fresh

NextUpload == UploaderMainAuthorized \/ UploadBytesDone \/ BatchCreateDone

SpecUpload == InitUpload /\ [][NextUpload]_vars

-----------------------------------------------------------------------------
(* Specification of one run of an entry point under fair scheduling *)

\* the process has ended: main is over and no listener, handler or timer keeps it alive
Exited ==
    /\ MainFinished
    /\ \/ pc = "crashed"
       \/ server \notin {"binding", "listening"} /\ HandlersQuiet

\* steps that happen when every external call settles and the browser delivers a callback
Progress ==
    \/ EnsureTokenDirectory
    \/ AuthorizeCheckCLI
    \/ AuthorizeGetCredentials
    \/ AuthorizeLoadToken
    \/ StartOAuthServer
    \/ ServerListening
    \/ OpenAuthUrl
    \/ UnhandledRejection
    \/ AwaitServerPromise
    \/ Callback(1)
    \/ \E r \in Requests : ExchangeDone(r)
    \/ \E r \in Requests : SaveDone(r)
    \/ \E r \in Requests : TimerFire(r)
    \/ TasksMainAuthorized
    \/ GetTaskListsDone
    \/ \E i \in 1..MaxLists : GetTasksDone(i)
    \/ DisplayTasks
    \/ ViewerMainAuthorized
    \/ ViewerListDone
    \/ ViewerGetDone
    \/ UploaderMainAuthorized
    \/ UploadBytesDone
    \/ BatchCreateDone

\* further requests on the redirect port
LaterCallback == \E r \in Requests \ {1} : Callback(r)

NextRun == Progress \/ ServerError \/ LaterCallback

SpecRun == Init /\ [][NextRun]_vars /\ WF_vars(Progress)

-----------------------------------------------------------------------------
(* Specification of direct calls of the media-library operations on a viewer *)
(* or uploader object                                                       *)

DirectOps == {"listMediaItems", "getMediaItem", "uploadBytes", "batchCreateMediaItems"}

\* the request kind of each operation
OpOf(name) ==
    CASE name = "listMediaItems" -> "list"
      [] name = "getMediaItem" -> "get"
      [] name = "uploadBytes" -> "upload"
      [] name = "batchCreateMediaItems" -> "batchCreate"

\* the operation throws before it builds a request
FailBeforeRequest(e) ==
    /\ pc' = "op_settled"
    /\ outcome' = "rejected"
    /\ mediaError' = e
    /\ UNCHANGED <<call, requestLog, issued>>

\* the operation returns the promise of its request: req.end()
SendRequest(op, request) ==
    /\ pc' = "op_wait"
    /\ call' = request
    /\ requestLog' = Append(requestLog, request)
    /\ issued' = Issue(issued, Step(op, 1))
    /\ UNCHANGED <<outcome, mediaError>>

\* listMediaItems(options)
CallListMediaItems ==
    /\ pc = "op_call"
    /\ entry = "listMediaItems"
    /\ \E given \in BOOLEAN, pageToken \in {Undef, "", "tok2"} :
         LET pre == Preflight("list", authResult, clientCreds) IN
         IF pre # NoError
         THEN FailBeforeRequest(pre)
         ELSE SendRequest("list", ListRequest(ListOptions(given, 10, pageToken)))
    /\ UNCHANGED <<entry, run, envVars, credentials, authVars, failedCalls, taskVars,
                   pages, allItems, mediaValue, fileName, mimeType,
                   uploadToken, response, answer>>

\* getMediaItem(mediaItemId)
CallGetMediaItem ==
    /\ pc = "op_call"
    /\ entry = "getMediaItem"
    /\ LET pre == Preflight("get", authResult, clientCreds) IN
       IF pre # NoError
       THEN FailBeforeRequest(pre)
       ELSE SendRequest("get", GetRequest(11))
    /\ UNCHANGED <<entry, run, envVars, credentials, authVars, failedCalls, taskVars,
                   pages, allItems, mediaValue, fileName, mimeType,
                   uploadToken, response, answer>>

\* uploadBytes(filePath): this.auth, then fs.readFile, then getAccessToken
CallUploadBytes ==
    /\ pc = "op_call"
    /\ entry = "uploadBytes"
    /\ \E readOk \in BOOLEAN :
         LET pre == Preflight("upload", authResult, clientCreds)
             name == Basename(CatImagePath) IN
         IF authResult # "client"
         THEN FailBeforeRequest(pre) /\ UNCHANGED <<fileName, mimeType>>
         ELSE IF ~readOk
         THEN /\ FailBeforeRequest(Wrap(OpMessages("upload").wrapper, Err("readFile failed", 0)))
              /\ UNCHANGED <<fileName, mimeType>>
         ELSE /\ fileName' = name
              /\ mimeType' = GetMimeType(name)
              /\ IF pre # NoError
                 THEN FailBeforeRequest(pre)
                 ELSE SendRequest("upload", UploadRequest(GetMimeType(name)))
    /\ UNCHANGED <<entry, run, envVars, credentials, authVars, failedCalls, taskVars,
                   pages, allItems, mediaValue, uploadToken, response, answer>>

\* batchCreateMediaItems([{ token, fileName, description }])
CallBatchCreateMediaItems ==
    /\ pc = "op_call"
    /\ entry = "batchCreateMediaItems"
    /\ \E token \in UploadTokens :
         LET pre == Preflight("batchCreate", authResult, clientCreds) IN
         IF pre # NoError
         THEN FailBeforeRequest(pre)
         ELSE SendRequest("batchCreate", BatchCreateRequest(token))
    /\ UNCHANGED <<entry, run, envVars, credentials, authVars, failedCalls, taskVars,
                   pages, allItems, mediaValue, fileName, mimeType,
                   uploadToken, response, answer>>

\* what the promise resolves with: the parsed body, or the raw text of an upload
ResolvedValue(op) == IF op = "upload" THEN "responseData" ELSE "parsed"

\* the "end" event of the response or the "error" event of the request: the promise settles
RequestAnswered ==
    /\ pc = "op_wait"
    /\ \E resp \in HttpResponses :
         LET settled == Settle(call.op, resp) IN
         /\ answer' = resp
         /\ IF settled.ok
            THEN /\ outcome' = "resolved"
                 /\ mediaValue' = ResolvedValue(call.op)
                 /\ UNCHANGED <<mediaError, failedCalls>>
            ELSE /\ outcome' = "rejected"
                 /\ mediaError' = settled.error
                 /\ failedCalls' = failedCalls \cup {Step(call.op, 1)}
                 /\ mediaValue' = mediaValue
    /\ pc' = "op_settled"
    /\ call' = NoCall
    /\ UNCHANGED <<entry, run, envVars, credentials, authVars, issued, taskVars,
                   pages, requestLog, allItems, fileName, mimeType, uploadToken, response>>

\* an object on which initialize() was never called ("pending"), returned false ("null"),
\* threw, or succeeded with some token record
InitOps ==
    /\ entry \in DirectOps
    /\ pc = "op_call"
    /\ opInstalled = TRUE
    /\ opSignedIn = TRUE
    /\ opFields = CredFields
    /\ opRaw = [f \in CredFields |-> <<"x", "nl">>]
    /\ authResult \in {"pending", "null", "threw", "client"}
    /\ clientCreds \in IF authResult = "client" THEN TokenRecords ELSE {NoTokens}
    /\ pages = <<>>
    /\ fileName = <<>>
    /\ Fresh

NextOps ==
    \/ CallListMediaItems
    \/ CallGetMediaItem
    \/ CallUploadBytes
    \/ CallBatchCreateMediaItems
    \/ RequestAnswered

SpecOps == InitOps /\ [][NextOps]_vars

-----------------------------------------------------------------------------
(* Properties *)

HandledRequests == {r \in Requests : reqs[r].st # "idle"}

ExchangesStarted == {r \in Requests : Count(issued, Step("exchange", r)) > 0}

\* C1: within one flow the redirect listener handles exactly one callback: after the
\* first GET / request no second request is handled, so getToken is started at most once.
C1_OneCallbackPerFlow ==
    /\ Cardinality(HandledRequests) <= 1
    /\ Cardinality(ExchangesStarted) <= 1

PromiseSettled == promise \in {"resolved", "rejected"}

\* C2: whenever the promise of startOAuthServer is settled the listener has been closed
\* and accepts nothing, and once a callback's handling has finished it is never open.
C2_SettledMeansTornDown ==
    /\ PromiseSettled => server # "listening"
    /\ (\E r \in Requests : reqs[r].st = "done") => server # "listening"

FieldsOf(file) == {p[1] : p \in file.body}

WriteSteps == {Step("writeFile", r) : r \in Requests}

\* a flow that was resolved and in which no write of the token file failed
SuccessfulFlow == promise = "resolved" /\ failedCalls \cap WriteSteps = {}

\* each successful saveToken leaves exactly the serialization of the record it was given
SaveReplacesFile ==
    \A r \in Requests :
        (reqs[r].st = "saving" /\ reqs'[r].st = "timer") =>
            /\ tokenFile'.kind = "json"
            /\ tokenFile'.body = JSONStringify(reqs[r].tokens)
            /\ \A f \in TokenFields : reqs[r].tokens[f] = Undef => f \notin FieldsOf(tokenFile')

\* after a successful flow the file is the serialization of a record the provider returned in it
FileIsLatestRecord ==
    SuccessfulFlow =>
        \E r \in Requests :
            /\ reqs[r].status = 200
            /\ tokenFile = JSONFile(JSONStringify(reqs[r].tokens))
            /\ JSONParse(tokenFile.body) = reqs[r].tokens

BothLookupsSucceed ==
    opInstalled /\ opSignedIn /\ "client_id" \in opFields /\ "client_secret" \in opFields

\* C4: getCredentialsFrom1Password returns null, never a partial record, whenever the CLI is
\* absent, the user is not signed in or either lookup fails; a record only when both succeeded.
C4_LoaderFailsClosed ==
    pc = "cred_returned" =>
        /\ credentials.isNull <=> ~BothLookupsSucceed
        /\ credentials.isNull => credentials = NullCredentials
        /\ ~credentials.isNull =>
              /\ credentials.client_id = Trim(opRaw["client_id"])
              /\ credentials.client_secret = Trim(opRaw["client_secret"])
              /\ credentials.redirect_uris = <<REDIRECT_URI>>

\* C4 witness: the first lookup succeeded, the second failed, and null came back
C4_Witness ==
    /\ pc = "cred_returned"
    /\ opInstalled /\ opSignedIn
    /\ opFields = {"client_id"}
    /\ credentials.isNull
    /\ Count(issued, Step("op_item_get", 2)) = 1

\* C5: the loop of listAllMediaItems ends at the first response without a continuation
\* token: no request follows it, and the requests sent equal the pages of the library.
C5_PagingStopsWithoutToken ==
    /\ Len(requestLog) <= Len(pages)
    /\ pc = "la_returned" => Len(requestLog) = Len(pages) /\ call = NoCall

\* C5 witness: a library of several pages was read to its end
C5_Witness ==
    /\ pc = "la_returned"
    /\ Len(pages) >= 2
    /\ Len(requestLog) = Len(pages)

RECURSIVE AllPagesInOrder(_)
AllPagesInOrder(lib) ==
    IF lib = <<>> THEN <<>>
    ELSE (IF Head(lib).hasItems THEN Head(lib).items ELSE <<>>) \o AllPagesInOrder(Tail(lib))

\* C6: the result of listAllMediaItems is the concatenation of the mediaItems of every
\* page in fetch order, nothing dropped or duplicated; a page without mediaItems adds nothing.
C6_ItemsAccumulateInOrder ==
    /\ pc = "la_returned" => allItems = AllPagesInOrder(pages)
    /\ pc = "la_wait" => allItems = AllPagesInOrder(SubSeq(pages, 1, Len(requestLog) - 1))
    /\ \A a, b \in 1..Len(allItems) : a # b => allItems[a] # allItems[b]

\* C6 witness: items of two pages were returned, with a page without mediaItems among the pages
C6_Witness ==
    /\ pc = "la_returned"
    /\ Len(pages) >= 2
    /\ \E i \in 1..Len(pages) : ~pages[i].hasItems
    /\ \E i, j \in 1..Len(pages) : i # j /\ Len(pages[i].items) > 0 /\ Len(pages[j].items) > 0
    /\ Len(allItems) >= 2

\* the content type the lookup is expected to give for an extension (written without its dot)
ExpectedContentType(ext) ==
    CASE ext \in {<<"j", "p", "g">>, <<"j", "p", "e", "g">>} -> "image/jpeg"
      [] ext = <<"p", "n", "g">> -> "image/png"
      [] ext = <<"g", "i", "f">> -> "image/gif"
      [] ext = <<"w", "e", "b", "p">> -> "image/webp"
      [] ext = <<"b", "m", "p">> -> "image/bmp"
      [] ext \in {<<"t", "i", "f", "f">>, <<"t", "i", "f">>} -> "image/tiff"
      [] ext = <<"h", "e", "i", "c">> -> "image/heic"
      [] ext = <<"a", "v", "i", "f">> -> "image/avif"
      [] ext = <<"m", "p", "4">> -> "video/mp4"
      [] ext = <<"m", "o", "v">> -> "video/quicktime"
      [] ext = <<"a", "v", "i">> -> "video/x-msvideo"
      [] ext = <<"m", "k", "v">> -> "video/x-matroska"
      [] ext = <<"w", "e", "b", "m">> -> "video/webm"
      [] OTHER -> "application/octet-stream"

\* the extension of a file name: what follows its last dot; none when the name has no dot
\* or only a leading one
ExtensionOf(name) ==
    IF LastDot(name) <= 1 THEN <<>> ELSE SubSeq(name, LastDot(name) + 1, Len(name))

\* C7: getMimeType returns the expected content type for every known extension, whatever
\* the letter case, and application/octet-stream when the extension is unknown or missing.
C7_MimeTypeLookup ==
    pc = "mime_returned" => mimeType = ExpectedContentType(ToLowerCase(ExtensionOf(fileName)))

\* C7 witness: an upper-case known extension was looked up
C7_Witness ==
    /\ pc = "mime_returned"
    /\ fileName = <<"c", "a", "t", ".", "J", "P", "G">>
    /\ mimeType = "image/jpeg"

NormalOutcomes == {"no_task_lists", "all_caught_up", "total_pending"}

\* C8: after a failed external call the run never continues with a substitute result and
\* reports a normal outcome: the failure is logged with remediation or ends the run.
C8_NoSubstituteResult ==
    (\E s \in failedCalls : s.kind \in {"tasklists", "tasks"}) => outcome \notin NormalOutcomes

\* every request issued so far was issued once, and only issued requests have failed
IssuedOnce ==
    /\ \A s \in DOMAIN issued : issued[s] = 1
    /\ failedCalls \subseteq DOMAIN issued

\* the external requests: secrets-CLI commands, the code exchange, media-library HTTP
\* requests and the Tasks reads (the local write of the token file is not one of them)
ExternalKinds ==
    {"op_version", "op_item_list", "op_item_get", "exchange", "list", "get", "upload",
     "batchCreate", "tasklists", "tasks"}

\* no step issues an external request of a kind of which a request has already failed
NoReissueAfterFailure ==
    \A s \in failedCalls : \A t \in DOMAIN issued' :
        (s.kind \in ExternalKinds /\ t.kind = s.kind) =>
            t \in DOMAIN issued /\ issued'[t] = issued[t]

\* C9: nothing is retried: every external request is issued at most once for its logical
\* step (an exchange belongs to the callback that carries its code), and once a request
\* has failed no request of its kind is issued again in the run.
C9_NothingRetried == []IssuedOnce /\ [][NoReissueAfterFailure]_vars

\* C9 witness: a run in which a per-list tasks read failed came to its end
C9_Witness ==
    /\ pc = "done"
    /\ \E s \in failedCalls : s.kind = "tasks" /\ issued[s] = 1
    /\ \E r \in Requests : Count(issued, Step("exchange", r)) = 1

AllReadsSettled == \A i \in 1..Len(reads) : reads[i].st = "settled"

\* C10: one tasks read per task list, all awaited before anything is displayed, and for
\* every completion order the tasks shown under a list are those its own read returned.
C10_FanOutKeepsLists ==
    /\ pc = "fanout" \/ shown # <<>> =>
          /\ Len(reads) = Len(taskLists)
          /\ \A i \in 1..Len(taskLists) :
                reads[i].tasklist = taskLists[i] /\ Count(issued, Step("tasks", taskLists[i])) = 1
    /\ shown # <<>> =>
          /\ AllReadsSettled
          /\ Len(shown) = Len(taskLists)
          /\ \A i \in 1..Len(taskLists) : shown[i] = reads[i].value
    /\ outcome \in {"all_caught_up", "total_pending"} => shown # <<>>

\* C10 witness: the reads settled in reverse order and each list shows its own tasks
C10_Witness ==
    /\ outcome = "total_pending"
    /\ Len(doneOrder) >= 2
    /\ doneOrder[1] > doneOrder[2]
    /\ shown[1] # shown[2]
    /\ shown[1] = reads[1].value

FlowStarted == promise # "none"

NoCallbackYet == \A r \in Requests : reqs[r].st = "idle"

\* a started flow to which no callback was delivered has not exited
WaitsForCallback == (FlowStarted /\ NoCallbackYet) => ~Exited

\* without a callback a started flow exits only after the listener reported an error:
\* the bind failed, or the rejection found no handler and ended the process
ExitsOnlyOnListenerError ==
    (FlowStarted /\ NoCallbackYet /\ Exited) =>
        promise = "rejected" /\ (server = "failed" \/ pc = "crashed")

\* C11 as stated: every run in which external calls settle and a callback is delivered
\* comes to its end with nothing left that keeps the process alive, and a flow to which no
\* callback is delivered never exits by itself.
C11_RunsOnceAndExits == <>Exited /\ []WaitsForCallback

\* C11 amended: the run comes to its end with nothing left that keeps the process alive,
\* and a flow to which no callback is delivered exits only when the listener reported an
\* error (failed bind, or a rejection that ends the process before it is awaited).
C11_ExitsOrListenerError == <>Exited /\ []ExitsOnlyOnListenerError

\* C11 witness: a flow that received its callback ran to the display of tasks and exited
C11_Witness ==
    /\ Exited
    /\ outcome = "total_pending"
    /\ reqs[1].st = "done"
    /\ server = "closed"

WritesStarted == {r \in Requests : Count(issued, Step("writeFile", r)) > 0}

WritesInFlight == {r \in Requests : reqs[r].st = "saving"}

\* C12: the token file has no concurrent writers: in one flow at most one write of the
\* token file is started, and no two writes are in flight at the same time.
C12_NoConcurrentWriters ==
    /\ Cardinality(WritesStarted) <= 1
    /\ Cardinality(WritesInFlight) <= 1

\* a callback whose code was exchanged and whose tokens were written to the token file
TokenWritten == \E r \in Requests : reqs[r].status = 200

\* C13: once a callback's code has been exchanged and its tokens written, the pending
\* authorization is resolved and never rejected: no later event turns the flow into a failure.
C13_WrittenFlowNotRejected ==
    [][(TokenWritten /\ promise = "pending") => promise' # "rejected"]_vars

\* C14: an authorization flow that ends rejected leaves the token file with exactly the
\* content it had before the flow started.
C14_RejectedFlowKeepsFile == promise = "rejected" => tokenFile = fileAtStart

\* authorize() came back with the client of a new authorization flow
ResolvedNewFlow == authResult = "client" /\ promise = "resolved"

\* C15: when authorize() resolves after a new flow the provider's tokens are the client's
\* credentials and are in the token file: both happened before the success page and the
\* resolve, and the file and the client hold the same token record.
C15_CredentialsSetAndPersisted ==
    /\ \A r \in Requests : reqs[r].status = 200 =>
          Count(issued, Step("writeFile", r)) = 1 /\ reqs[r].tokens \in TokenRecords
    /\ promise = "resolved" => \E r \in Requests : reqs[r].status = 200
    /\ ResolvedNewFlow =>
          /\ tokenFile.kind = "json"
          /\ JSONParse(tokenFile.body) = clientCreds

\* the token file held a record when the run started and no read of it failed
StoredTokenReadable == fileAtStart.kind = "json" /\ Step("readFile", 0) \notin failedCalls

\* authorize() has built its OAuth2 client and is past the point where a stored token is used
PastStoredTokenCheck == ~credentials.isNull /\ pc \notin {"start", "check", "creds", "load"}

\* C16: authorize() starts a new flow only when no stored token is found: with a readable,
\* parseable record in the token file the record is set on the client, the client is
\* returned, no listener is started, no browser is opened and the file is not written.
C16_StoredTokenReused ==
    (StoredTokenReadable /\ PastStoredTokenCheck) =>
        /\ authResult = "client"
        /\ clientCreds = JSONParse(fileAtStart.body)
        /\ server = "none"
        /\ promise = "none"
        /\ ~browserOpened
        /\ tokenFile = fileAtStart

\* check1PasswordCLI() was run in this run
CLIChecked == Count(issued, Step("op_version", 0)) = 1

\* getCredentialsFrom1Password was invoked in this run
LoaderInvoked == \E s \in DOMAIN issued : s.kind = "op_item_get"

\* nothing happened on the OAuth side: no listener, no browser, provider not contacted,
\* client without tokens, token file as it was
NoOAuthEffects ==
    /\ server = "none"
    /\ promise = "none"
    /\ ~browserOpened
    /\ clientCreds = NoTokens
    /\ tokenFile = fileAtStart
    /\ \A s \in DOMAIN issued : s.kind \in {"op_version", "op_item_list", "op_item_get"}

\* C17: authorize() fails closed: when the CLI check fails or the credential loader returns
\* null it returns null and the run starts no listener, opens no URL, contacts no provider
\* and writes no token file; the loader is not invoked when the CLI check fails.
C17_AuthorizeFailsClosed ==
    /\ (CLIChecked /\ ~(opInstalled /\ opSignedIn) /\ pc # "check") =>
          authResult = "null" /\ ~LoaderInvoked
    /\ (LoaderInvoked /\ ~BothLookupsSucceed /\ pc # "creds") => authResult = "null"
    /\ authResult = "null" => NoOAuthEffects

\* C17 witness: the CLI check passed, the loader returned null and the run ended
C17_Witness ==
    /\ pc = "done"
    /\ authResult = "null"
    /\ opInstalled /\ opSignedIn
    /\ LoaderInvoked
    /\ credentials.isNull

\* C18: the authorization URL is opened only in states where the redirect listener is
\* listening on the redirect port, and it is not opened when the listener failed to bind.
C18_ListenerReadyBeforeBrowser ==
    [][(~browserOpened /\ browserOpened') => server = "listening"]_vars

UploadIssued == Count(issued, Step("upload", 1)) = 1

BatchCreateIssued == Count(issued, Step("batchCreate", 1)) > 0

UploadFailed == Step("upload", 1) \in failedCalls

\* C19: uploadFile uploads the bytes first and batch-creates second: the batch-create
\* request is issued only after the upload succeeded, it carries the one token that upload
\* returned, and when the upload fails no batch-create request is issued.
C19_UploadThenBatchCreate ==
    /\ BatchCreateIssued =>
          /\ UploadIssued /\ ~UploadFailed
          /\ uploadToken \in UploadTokens
          /\ Len(requestLog) = 2
          /\ requestLog[1].op = "upload"
          /\ requestLog[2] = [op |-> "batchCreate", pageSize |-> 0, pageToken |-> Undef,
                              item |-> 0, arg |-> uploadToken]
    /\ pc = "u_create" => BatchCreateIssued /\ call = requestLog[2]
    /\ UploadFailed => ~BatchCreateIssued /\ Len(requestLog) = 1 /\ pc = "done"
    /\ ~BatchCreateIssued => \A k \in 1..Len(requestLog) : requestLog[k].op # "batchCreate"

\* C19 witness: the upload returned the second token and the batch-create request is in flight
C19_Witness ==
    /\ pc = "u_create"
    /\ uploadToken = "u2"
    /\ call.arg = "u2"

\* uploadFile was called and has settled
UploadFileSettled ==
    /\ pc = "done"
    /\ authResult \notin {"null", "threw"}
    /\ outcome \in {"upload_successful", "error_setup_instructions"}

UploadFileReturned == outcome = "upload_successful"

\* the batch-create response has a non-empty newMediaItemResults whose first result
\* carries a mediaItem
FirstResultHasItem ==
    /\ response.received
    /\ response.body.hasResults
    /\ Len(response.body.results) > 0
    /\ response.body.results[1].hasMediaItem

\* C20: uploadFile returns a media item iff the batch-create response has a non-empty
\* newMediaItemResults whose first result carries a mediaItem, and then exactly that item;
\* in every other case it fails with an error wrapped as 'Failed to upload file: ...'.
C20_UploadFileResult ==
    UploadFileSettled =>
        /\ UploadFileReturned <=> FirstResultHasItem
        /\ UploadFileReturned =>
              mediaValue = response.body.results[1].item /\ mediaError = NoError
        /\ ~UploadFileReturned =>
              /\ mediaValue = 0
              /\ Len(mediaError.wrap) > 0
              /\ Head(mediaError.wrap) = "Failed to upload file"

\* C20 witness: batch-create answered with a first result that has no mediaItem
C20_Witness ==
    /\ UploadFileSettled
    /\ response.received
    /\ Len(response.body.results) = 1
    /\ ~response.body.results[1].hasMediaItem
    /\ mediaError.msg = "Failed to create media item"

\* the object's auth field is null: initialize() was never called, returned false or threw
Unauthenticated == authResult # "client"

\* the directly called operation has run up to its request or its failure
OperationCalled == entry \in DirectOps /\ pc # "op_call"

NoRequestSent == requestLog = <<>> /\ issued = NoneIssued /\ call = NoCall

\* C21: no media-library request is sent without authentication. An operation called on
\* an object whose initialize() has not completed successfully fails with the
\* 'Not authenticated' error and sends no HTTP request, and an operation called with a
\* client that has no access_token fails before any request is sent.
C21_NoRequestWithoutAuthentication ==
    OperationCalled =>
        /\ Unauthenticated =>
             /\ pc = "op_settled"
             /\ outcome = "rejected"
             /\ mediaError = Err("Not authenticated. Call initialize() first.", 0)
             /\ NoRequestSent
        /\ (~Unauthenticated /\ ~Truthy(clientCreds.access_token)) =>
             /\ pc = "op_settled"
             /\ outcome = "rejected"
             /\ mediaError # NoError
             /\ NoRequestSent
        /\ ~NoRequestSent => (~Unauthenticated /\ Truthy(clientCreds.access_token))

\* C21 witness: uploadBytes was called on an uploader whose initialize() returned false
C21_Witness ==
    /\ entry = "uploadBytes"
    /\ pc = "op_settled"
    /\ authResult = "null"
    /\ mediaError.msg = "Not authenticated. Call initialize() first."

JsonOps == {"listMediaItems", "getMediaItem", "batchCreateMediaItems"}

\* the request of a directly called JSON operation was sent and its promise has settled
JsonRequestSettled == entry \in JsonOps /\ pc = "op_settled" /\ requestLog # <<>>

\* C22: a call of listMediaItems, getMediaItem or batchCreateMediaItems whose request was
\* sent settles exactly once; it resolves, with the parsed body, iff the status is in
\* 200..299 and the body parses as JSON; a non-2xx status is reported as that operation's
\* request failure naming the status code, an unparseable body as a parse failure, and a
\* transport error as that operation's request failure.
C22_SettlesByStatusAndBody ==
    JsonRequestSettled =>
        /\ outcome \in {"resolved", "rejected"}
        /\ call = NoCall
        /\ (outcome = "resolved") <=>
             (~answer.error /\ Is2xx(answer.status) /\ answer.json)
        /\ outcome = "resolved" => (mediaValue = "parsed" /\ mediaError = NoError)
        /\ (~answer.error /\ ~Is2xx(answer.status)) =>
             /\ mediaError.msg = OpMessages(OpOf(entry)).failed
             /\ mediaError.status = answer.status
        /\ (~answer.error /\ ~answer.json) => mediaError.msg = "Failed to parse response"
        /\ answer.error => mediaError.msg = OpMessages(OpOf(entry)).transport

\* a directly called operation on an authorised client has failed
AuthenticatedCallFailed ==
    /\ entry \in DirectOps
    /\ pc = "op_settled"
    /\ authResult = "client"
    /\ outcome = "rejected"

\* C23: every error with which an authenticated call of listMediaItems, getMediaItem,
\* uploadBytes or batchCreateMediaItems fails (a non-2xx response, a parse failure and a
\* network error included) reaches the caller wrapped in that operation's own message.
C23_FailuresWrappedAtCallSite ==
    AuthenticatedCallFailed =>
        /\ mediaError.wrap # <<>>
        /\ Head(mediaError.wrap) = OpMessages(OpOf(entry)).wrapper

\* the nextPageToken of the response to the i-th list request
NextPageTokenAfter(i) == ServePage(pages, requestLog[i]).next

\* the first request carries no page token, each later one the token of the response
\* before it, and all carry one page size
TokenThreaded ==
    \A i \in 1..Len(requestLog) :
        /\ requestLog[i].op = "list"
        /\ requestLog[i].pageSize = requestLog[1].pageSize
        /\ requestLog[i].pageToken = IF i = 1 THEN Undef ELSE NextPageTokenAfter(i - 1)
        /\ Count(issued, Step("list", i)) = 1

\* at most the latest request is unanswered
OneRequestInFlight ==
    /\ (call # NoCall) <=> (pc = "la_wait")
    /\ pc = "la_wait" => call = requestLog[Len(requestLog)]

\* a failed call has stopped, and only a call without a failure returns a list
FailureStopsLoop ==
    /\ pc = "la_failed" => (call = NoCall /\ mediaError # NoError)
    /\ pc = "la_returned" => (failedCalls = {} /\ mediaError = NoError)

\* a request is sent by the call or by the step that takes the previous response, one at
\* a time, and the step in which the call fails sends none
SentOnlyAfterResponse ==
    /\ requestLog' # requestLog =>
         /\ requestLog' = Append(requestLog, call')
         /\ pc \in {"la_start", "la_wait"}
         /\ failedCalls' = failedCalls
    /\ (pc = "la_failed" \/ pc' = "la_failed") => requestLog' = requestLog

\* C24: in listAllMediaItems the first list request carries no page token, every later
\* request carries exactly the nextPageToken of the response immediately before it, all
\* requests carry the same page size, requests are issued one at a time, each after the
\* previous response arrived, and when a page request fails the loop stops, the call
\* fails and no partial list is returned.
C24_TokenThreadedPageByPage ==
    /\ [](TokenThreaded /\ OneRequestInFlight /\ FailureStopsLoop)
    /\ [][SentOnlyAfterResponse]_vars

\* C24 witness: the second page was requested with the first response's token and failed
\* after the first page's items had been accumulated
C24_Witness ==
    /\ pc = "la_failed"
    /\ Len(requestLog) = 2
    /\ requestLog[2].pageToken = "tok2"
    /\ allItems # <<>>
    /\ Step("list", 2) \in failedCalls

=============================================================================
